---- MODULE Spec2Model ----
(***************************************************************************)
(* The transaction pool's reaction to consensus changes                    *)
(* (modules/transactionpool/update.go): purge, ProcessConsensusChange and  *)
(* PurgeTransactionPool, run by concurrent callers under the pool lock.    *)
(***************************************************************************)
EXTENDS Integers, Sequences, FiniteSets, TLC

\* ------------------------------------------------------------------ bounds
\* types.BlockHeight is a uint64; the model keeps the wrap-around with a
\* narrower unsigned integer of HeightBits bits.
HeightBits == 6
\* ProcessConsensusChange calls per behaviour.
MaxChanges == 2
\* Blocks per RevertedBlocks / (chosen) AppliedBlocks list of one change.
MaxReverted == 2
MaxApplied == 1

RECURSIVE Pow2(_)
Pow2(n) == IF n = 0 THEN 1 ELSE 2 * Pow2(n - 1)

Modulus == Pow2(HeightBits)

\* ------------------------------------------------------------- constants
maxTxnAge == 12

\* ------------------------------------------------------------ the inputs
\* ta and tb spend the same output o2; tc is an arbitrary-data transaction
\* with no dependencies.
Txns == {"ta", "tb", "tc"}
Objects == {"o1", "o2"}

ObjectsOf(txn) ==
    CASE txn = "ta" -> {"o1", "o2"}
      [] txn = "tb" -> {"o2"}
      [] OTHER -> {}

\* A block is its ordered list of transactions.
Blocks == {<<>>, <<"ta">>, <<"tb", "tc">>}

RECURSIVE SeqsUpTo(_, _)
SeqsUpTo(S, n) ==
    IF n = 0 THEN {<<>>}
    ELSE LET shorter == SeqsUpTo(S, n - 1)
         IN shorter \cup {Append(s, x) : s \in shorter, x \in S}

RECURSIVE EmptyBlocks(_)
EmptyBlocks(n) == IF n = 0 THEN <<>> ELSE Append(EmptyBlocks(n - 1), <<>>)

\* A change reverts a short list of blocks and applies a short list of
\* blocks, or a run of empty blocks as long as the age threshold or one
\* longer (so that ages on both sides of the threshold occur).
RevertedChoices == SeqsUpTo(Blocks, MaxReverted)
AppliedChoices ==
    SeqsUpTo(Blocks, MaxApplied)
        \cup {EmptyBlocks(maxTxnAge), EmptyBlocks(maxTxnAge + 1)}

\* Transaction sets submitted by users through AcceptTransactionSet.
NewSets == {<<"ta">>, <<"tc">>, <<"ta", "tc">>}

\* --------------------------------------------------------------- threads
Changers == {"c1", "c2"}
Purgers == {"p"}
Admitters == {"a"}
Readers == {"r"}
Procs == Changers \cup Purgers \cup Admitters \cup Readers

NoCC == [RevertedBlocks |-> <<>>, AppliedBlocks |-> <<>>, ID |-> 0, valid |-> {}]

VARIABLES
    tp,          \* the TransactionPool's fields
    db,          \* the database of confirmed transactions (tp.dbTx)
    updates,     \* number of updateSubscribersTransactions calls
    mu,          \* tp.mu
    pc,          \* each caller's position
    cc,          \* the ConsensusChange argument of each call in progress
    unconfirmedSets,  \* the local of each ProcessConsensusChange in progress
    changes,     \* number of ProcessConsensusChange calls so far
    netBlocks,   \* history: applied minus reverted blocks of all changes
    op,          \* history: the call that returned last
    pre,         \* history: tp when that call (or the one in progress) began
    offers,      \* history: its acceptTransactionSet calls, in order
    notified,    \* history: the pool contents its notifications carried
    retired,     \* history: transactions a change confirmed while they were pooled
    committed,   \* history: tp when exclusive access was last given up
    cs,          \* the holder of the consensus set's lock
    log          \* tp.log: the errors logged by the call in progress

vars == <<tp, db, updates, mu, pc, cc, unconfirmedSets, changes, netBlocks,
          op, pre, offers, notified, retired, committed, cs, log>>

\* ---------------------------------------------------------------- helpers
Range(s) == {s[i] : i \in 1..Len(s)}

Remove(f, k) == [x \in DOMAIN f \ {k} |-> f[x]]

Put(f, k, v) == [x \in DOMAIN f \cup {k} |-> IF x = k THEN v ELSE f[x]]

EmptyMap == [x \in {} |-> 0]

RECURSIVE Flatten(_)
Flatten(ss) == IF ss = <<>> THEN <<>> ELSE Head(ss) \o Flatten(Tail(ss))

RECURSIVE Count(_, _)
Count(s, x) ==
    IF s = <<>> THEN 0
    ELSE (IF Head(s) = x THEN 1 ELSE 0) + Count(Tail(s), x)

\* crypto.HashObject(ts): content-derived, one ID per distinct list.
SetID(ts) == <<"set", ts>>

RelatedObjects(ts) == UNION {ObjectsOf(ts[i]) : i \in 1..Len(ts)}

SetSize(ts) == Len(ts)

\* ------------------------------------------------------------------ purge
purgeKeepsClaims(t) ==
    [t EXCEPT !.transactionSets = EmptyMap,
              !.transactionSetDiffs = EmptyMap,
              !.transactionListSize = 0]

purgeForgetsHeights(t) ==
    [t EXCEPT !.knownObjects = EmptyMap,
              !.transactionSets = EmptyMap,
              !.transactionSetDiffs = EmptyMap,
              !.transactionListSize = 0,
              !.transactionHeights = EmptyMap]

purgeUnwindsBlock(t) ==
    [t EXCEPT !.knownObjects = EmptyMap,
              !.transactionSets = EmptyMap,
              !.transactionSetDiffs = EmptyMap,
              !.transactionListSize = 0,
              !.blockHeight = (t.blockHeight + Modulus - 1) % Modulus]

purge(t) ==
    [t EXCEPT !.knownObjects = EmptyMap,
              !.transactionSets = EmptyMap,
              !.transactionSetDiffs = EmptyMap,
              !.transactionListSize = 0]


\* ------------------------------------------------- the Admission Gate
\* acceptTransactionSet(ts, txnFn) lives outside update.go. It rejects an
\* empty set, a set already pooled, a set claiming an already-claimed object
\* and a set the validation capability txnFn rejects, and changes nothing on
\* rejection. txnFn is modelled by the transactions `valid` it accepts.
GateAccepts(t, ts, valid) ==
    /\ Len(ts) > 0
    /\ SetID(ts) \notin DOMAIN t.transactionSets
    /\ \A o \in RelatedObjects(ts) : o \notin DOMAIN t.knownObjects
    /\ \A i \in 1..Len(ts) : ts[i] \in valid

\* On success: claims the objects, records the set and its diff, adds its
\* size, and records the current height for transactions that have none.
acceptTransactionSet(t, ts, valid) ==
    IF GateAccepts(t, ts, valid)
    THEN [err |-> FALSE,
          tp |-> [t EXCEPT
             !.knownObjects =
                 [o \in DOMAIN t.knownObjects \cup RelatedObjects(ts) |->
                     IF o \in RelatedObjects(ts) THEN SetID(ts)
                     ELSE t.knownObjects[o]],
             !.transactionSets = Put(t.transactionSets, SetID(ts), ts),
             !.transactionSetDiffs =
                 Put(t.transactionSetDiffs, SetID(ts), RelatedObjects(ts)),
             !.transactionListSize = t.transactionListSize + SetSize(ts),
             !.transactionHeights =
                 [x \in DOMAIN t.transactionHeights \cup Range(ts) |->
                     IF x \in DOMAIN t.transactionHeights
                     THEN t.transactionHeights[x]
                     ELSE t.blockHeight]]]
    ELSE [err |-> TRUE, tp |-> t]

\* ------------------------------------------ ProcessConsensusChange, 26-51
\* tp.blockHeight-- and tp.blockHeight++ on the unsigned height.
Decrement(h) == (h + Modulus - 1) % Modulus
Increment(h) == (h + 1) % Modulus

RECURSIVE RevertHeight(_, _)
RevertHeight(h, blocks) ==
    IF blocks = <<>> THEN h ELSE RevertHeight(Decrement(h), Tail(blocks))

RECURSIVE ApplyHeight(_, _)
ApplyHeight(h, blocks) ==
    IF blocks = <<>> THEN h ELSE ApplyHeight(Increment(h), Tail(blocks))

BlockTxns(blocks) == Range(Flatten(blocks))

updateDatabaseAddsFirst(d, c, height, fails) ==
    LET afterAdd == IF "add" \in fails THEN d.confirmed
                    ELSE d.confirmed \cup BlockTxns(c.AppliedBlocks)
        afterDelete == IF "delete" \in fails THEN afterAdd
                       ELSE afterAdd \ BlockTxns(c.RevertedBlocks)
    IN [confirmed |-> afterDelete,
        recentChange |-> IF "change" \in fails THEN d.recentChange ELSE c.ID,
        blockHeight |-> IF "height" \in fails THEN d.blockHeight ELSE height]

\* The database writes; `fails` names the kinds of write that return an
\* error (which is logged and otherwise ignored).
updateDatabase(d, c, height, fails) ==
    LET afterDelete == IF "delete" \in fails THEN d.confirmed
                       ELSE d.confirmed \ BlockTxns(c.RevertedBlocks)
        afterAdd == IF "add" \in fails THEN afterDelete
                    ELSE afterDelete \cup BlockTxns(c.AppliedBlocks)
    IN [confirmed |-> afterAdd,
        recentChange |-> IF "change" \in fails THEN d.recentChange ELSE c.ID,
        blockHeight |-> IF "height" \in fails THEN d.blockHeight ELSE height]

updateHeight(t, c) ==
    [t EXCEPT !.blockHeight =
        ApplyHeight(RevertHeight(t.blockHeight, c.RevertedBlocks), c.AppliedBlocks)]

\* ------------------------------------------ ProcessConsensusChange, 58-81
txids(c) == BlockTxns(c.AppliedBlocks)

newTSetKeepsConfirmed(tSet, ids) == tSet

newTSet(tSet, ids) == SelectSeq(tSet, LAMBDA txn : txn \notin ids)

\* The pooled sets in the order the map iteration yields them.
Orders(m) ==
    {o \in [1..Cardinality(DOMAIN m) -> DOMAIN m] :
        \A i, j \in DOMAIN o : i # j => o[i] # o[j]}

stripConfirmed(t, order, ids) ==
    [i \in DOMAIN order |-> newTSet(t.transactionSets[order[i]], ids)]

\* ------------------------------------------ ProcessConsensusChange, 87-99
\* seenHeight, seen := tp.transactionHeights[txn.ID()]
seenHeight(heights, txn) == IF txn \in DOMAIN heights THEN heights[txn] ELSE 0

\* tp.blockHeight-seenHeight <= maxTxnAge || !seen, on unsigned integers.
keepTxn(height, heights, txn) ==
    \/ (height + Modulus - seenHeight(heights, txn)) % Modulus <= maxTxnAge
    \/ txn \notin DOMAIN heights

RECURSIVE pruneSet(_, _, _)
pruneSet(tSet, height, heights) ==
    IF tSet = <<>> THEN [validTxns |-> <<>>, heights |-> heights]
    ELSE LET txn == Head(tSet)
             keep == keepTxn(height, heights, txn)
             rest == pruneSet(Tail(tSet), height,
                              IF keep THEN heights ELSE Remove(heights, txn))
         IN [validTxns |-> IF keep THEN <<txn>> \o rest.validTxns
                           ELSE rest.validTxns,
             heights |-> rest.heights]

RECURSIVE pruneSets(_, _, _)
pruneSets(sets, height, heights) ==
    IF sets = <<>> THEN [sets |-> <<>>, heights |-> heights]
    ELSE LET first == pruneSet(Head(sets), height, heights)
             rest == pruneSets(Tail(sets), height, first.heights)
         IN [sets |-> <<first.validTxns>> \o rest.sets, heights |-> rest.heights]

\* ---------------------------------------- ProcessConsensusChange, 103-116
Reverse(s) == [i \in 1..Len(s) |-> s[Len(s) + 1 - i]]

revertedTxnsOncePerTxn(c) ==
    LET all == SelectSeq(Flatten(Reverse(c.RevertedBlocks)),
                         LAMBDA txn : txn \notin txids(c))
    IN SelectSeq([i \in 1..Len(all) |->
                    IF \E j \in 1..(i - 1) : all[j] = all[i] THEN "" ELSE all[i]],
                 LAMBDA txn : txn # "")

revertedTxnsAsUnwound(c) ==
    SelectSeq(Flatten(c.RevertedBlocks), LAMBDA txn : txn \notin txids(c))

\* The reverted transactions in the order they are offered.
revertedTxns(c) ==
    SelectSeq(Flatten(Reverse(c.RevertedBlocks)), LAMBDA txn : txn \notin txids(c))

\* st is [tp, offers]: the pool and the history of offers made so far.
RECURSIVE readdReverted(_, _, _)
readdReverted(st, list, valid) ==
    IF list = <<>> THEN st
    ELSE LET txn == Head(list)
             res == acceptTransactionSet(st.tp, <<txn>>, valid)
         IN readdReverted(
                [tp |-> res.tp,
                 offers |-> Append(st.offers,
                     [set |-> <<txn>>, from |-> "reverted", err |-> res.err])],
                Tail(list), valid)

\* ---------------------------------------- ProcessConsensusChange, 132-141
RECURSIVE readdUnconfirmed(_, _, _)
readdUnconfirmed(st, list, valid) ==
    IF list = <<>> THEN st
    ELSE LET txn == Head(list)
             res == acceptTransactionSet(st.tp, <<txn>>, valid)
             after == IF res.err
                      THEN [res.tp EXCEPT !.transactionHeights =
                                Remove(res.tp.transactionHeights, txn)]
                      ELSE res.tp
         IN readdUnconfirmed(
                [tp |-> after,
                 offers |-> Append(st.offers,
                     [set |-> <<txn>>, from |-> "unconfirmed", err |-> res.err])],
                Tail(list), valid)


processConsensusChangeSurvivorsFirst(t, d, c, order, fails) ==
    LET t1 == updateHeight(t, c)
        stripped == stripConfirmed(t1, order, txids(c))
        t2 == purge(t1)
        pruned == pruneSets(stripped, t2.blockHeight, t2.transactionHeights)
        t3 == [t2 EXCEPT !.transactionHeights = pruned.heights]
        st1 == readdUnconfirmed([tp |-> t3, offers |-> <<>>],
                                Flatten(pruned.sets), c.valid)
        st2 == readdReverted(st1, revertedTxns(c), c.valid)
    IN [tp |-> st2.tp,
        db |-> updateDatabase(d, c, t1.blockHeight, fails),
        unconfirmedSets |-> pruned.sets,
        offers |-> st2.offers]

\* ------------------------------------ ProcessConsensusChange, lines 26-141
\* The whole exclusive phase: what the call computes from the pool t, the
\* database d, the change c, the map iteration order and the failing writes.
processConsensusChange(t, d, c, order, fails) ==
    LET t1 == updateHeight(t, c)
        stripped == stripConfirmed(t1, order, txids(c))
        t2 == purge(t1)
        pruned == pruneSets(stripped, t2.blockHeight, t2.transactionHeights)
        t3 == [t2 EXCEPT !.transactionHeights = pruned.heights]
        st1 == readdReverted([tp |-> t3, offers |-> <<>>], revertedTxns(c), c.valid)
        st2 == readdUnconfirmed(st1, Flatten(pruned.sets), c.valid)
    IN [tp |-> st2.tp,
        db |-> updateDatabase(d, c, t1.blockHeight, fails),
        unconfirmedSets |-> pruned.sets,
        offers |-> st2.offers]

\* ------------------------------------------------------------------ Init
NewPool ==
    [knownObjects |-> EmptyMap,
     transactionSets |-> EmptyMap,
     transactionSetDiffs |-> EmptyMap,
     transactionListSize |-> 0,
     blockHeight |-> 0,
     transactionHeights |-> EmptyMap]

Init ==
    /\ tp = NewPool
    /\ db = [confirmed |-> {}, recentChange |-> 0, blockHeight |-> 0]
    /\ updates = 0
    /\ mu = [writer |-> "none", demoted |-> FALSE, readers |-> {}]
    /\ pc = [p \in Procs |-> "idle"]
    /\ cc = [p \in Changers |-> NoCC]
    /\ unconfirmedSets = [p \in Changers |-> <<>>]
    /\ changes = 0
    /\ netBlocks = 0
    /\ op = "none"
    /\ pre = NewPool
    /\ offers = <<>>
    /\ notified = <<>>
    /\ retired = {}
    /\ committed = NewPool
    /\ cs = "none"
    /\ log = {}

PooledTxns(t) ==
    UNION {Range(t.transactionSets[id]) : id \in DOMAIN t.transactionSets}

\* The transactions whose validity the change's capability can be asked about.
Candidates(t, reverted, applied) == BlockTxns(reverted) \cup PooledTxns(t)

\* The kinds of database write that fail during one call: none, one kind,
\* or all.
DbWrites == {"delete", "add", "change", "height"}
DbFailures == {{}, DbWrites} \cup {{w} : w \in DbWrites}
NoFailures == {{}}

\* ---------------------------------------------- the calls, run one by one
\* ProcessConsensusChange(cc), lines 22-147, by one caller from Lock to
\* DemotedUnlock.
CallProcessConsensusChange(self) ==
    /\ op = "none"
    /\ changes < MaxChanges
    /\ \E reverted \in RevertedChoices, applied \in AppliedChoices :
       \E valid \in SUBSET Candidates(tp, reverted, applied) :
       \E order \in Orders(tp.transactionSets), fails \in NoFailures :
       \E c \in {[RevertedBlocks |-> reverted, AppliedBlocks |-> applied,
                  ID |-> changes + 1, valid |-> valid]} :
       \E res \in {processConsensusChange(tp, db, c, order, fails)} :
             /\ tp' = res.tp
             /\ db' = res.db
             /\ log' = fails
             /\ cc' = [cc EXCEPT ![self] = c]
             /\ unconfirmedSets' = [unconfirmedSets EXCEPT ![self] = res.unconfirmedSets]
             /\ offers' = res.offers
             /\ notified' = <<res.tp.transactionSets>>
             /\ committed' = res.tp
             /\ netBlocks' = netBlocks + Len(applied) - Len(reverted)
             /\ retired' = retired \cup (PooledTxns(tp) \cap BlockTxns(applied))
    /\ updates' = updates + 1
    /\ changes' = changes + 1
    /\ op' = "ProcessConsensusChange"
    /\ pre' = tp
    /\ UNCHANGED <<cs, mu, pc>>

\* PurgeTransactionPool(), lines 150-154.
CallPurgeTransactionPool ==
    /\ op = "none"
    /\ tp' = purge(tp)
    /\ op' = "PurgeTransactionPool"
    /\ pre' = tp
    /\ committed' = tp'
    /\ UNCHANGED <<cs, log, db, updates, mu, pc, cc, unconfirmedSets, changes, netBlocks,
                   offers, notified, retired>>

\* PurgeTransactionPool() called again right after it returned; pre stays
\* the pool before the first of the two calls.
CallPurgeTransactionPoolAgain ==
    /\ op = "PurgeTransactionPool"
    /\ tp' = purge(tp)
    /\ op' = "PurgeTransactionPool twice"
    /\ committed' = tp'
    /\ UNCHANGED <<cs, log, db, updates, mu, pc, cc, unconfirmedSets, changes,
                   netBlocks, pre, offers, notified, retired>>

\* A user's AcceptTransactionSet(ts): the Admission Gate under the lock,
\* validating against the consensus set.
CallAcceptTransactionSet ==
    /\ op = "none"
    /\ \E ts \in NewSets :
       \E res \in {acceptTransactionSet(tp, ts, Txns)} :
            /\ ~res.err
            /\ tp' = res.tp
            /\ committed' = res.tp
    /\ op' = "AcceptTransactionSet"
    /\ pre' = tp
    /\ UNCHANGED <<cs, log, db, updates, mu, pc, cc, unconfirmedSets, changes, netBlocks,
                   offers, notified, retired>>

\* The call has returned: its arguments and locals are gone.
Return ==
    /\ op # "none"
    /\ op' = "none"
    /\ pre' = NewPool
    /\ offers' = <<>>
    /\ notified' = <<>>
    /\ cc' = [p \in Changers |-> NoCC]
    /\ unconfirmedSets' = [p \in Changers |-> <<>>]
    /\ log' = {}
    /\ UNCHANGED <<cs, tp, db, updates, mu, pc, changes, netBlocks, retired,
                   committed>>

Next ==
    \/ CallProcessConsensusChange("c1")
    \/ CallPurgeTransactionPool
    \/ CallPurgeTransactionPoolAgain
    \/ CallAcceptTransactionSet
    \/ Return

Spec == Init /\ [][Next]_vars

\* The runs in which PurgeTransactionPool is never called.
NextNoPurge ==
    \/ CallProcessConsensusChange("c1")
    \/ CallAcceptTransactionSet
    \/ Return

SpecNoPurge == Init /\ [][NextNoPurge]_vars


\* =========================================== the calls, step by step
\* tp.mu is a lock with exclusive, demoted and shared holds: a writer holds
\* it exclusively or, after Demote, demoted (other writers stay out, readers
\* come in); readers hold it shared.
LockFree(m) == m.writer = "none" /\ m.readers = {}

Lock(m, self) == [m EXCEPT !.writer = self, !.demoted = FALSE]

Demote(m) == [m EXCEPT !.demoted = TRUE]

Unlock(m) == [m EXCEPT !.writer = "none", !.demoted = FALSE]

DemotedUnlock(m) == [m EXCEPT !.writer = "none", !.demoted = FALSE]

CanRLock(m) == m.writer = "none" \/ m.demoted

RLock(m, self) == [m EXCEPT !.readers = @ \cup {self}]

RUnlock(m, self) == [m EXCEPT !.readers = @ \ {self}]

\* The changes passed while other callers run: at most MaxConcBlocks blocks
\* reverted and applied.
MaxConcBlocks == 1
ConcChoices == SeqsUpTo(Blocks, MaxConcBlocks)

\* line 23: tp.mu.Lock(), in the call ProcessConsensusChange(cc) made at `at`
PccLockAt(self, at) ==
    /\ pc[self] = at
    /\ op = "none"
    /\ changes < MaxChanges
    /\ LockFree(mu)
    /\ \E reverted \in ConcChoices, applied \in ConcChoices :
       \E valid \in SUBSET Candidates(tp, reverted, applied) :
          cc' = [cc EXCEPT ![self] =
                    [RevertedBlocks |-> reverted, AppliedBlocks |-> applied,
                     ID |-> changes + 1, valid |-> valid]]
    /\ mu' = Lock(mu, self)
    /\ changes' = changes + 1
    /\ pre' = tp
    /\ pc' = [pc EXCEPT ![self] = "update"]
    /\ UNCHANGED <<cs, log, tp, db, updates, unconfirmedSets, netBlocks, op, offers,
                   notified, retired, committed>>

PccLock(self) == PccLockAt(self, "idle")

\* lines 26-51: the height and the database of confirmed transactions; the
\* writes that fail are one of `failures`, and a call whose writes fail goes
\* on at onError.
PccUpdateWith(self, failures, onError) ==
    /\ pc[self] = "update"
    /\ tp' = updateHeight(tp, cc[self])
    /\ \E fails \in failures :
          /\ db' = updateDatabase(db, cc[self], tp'.blockHeight, fails)
          /\ log' = fails
          /\ pc' = [pc EXCEPT ![self] = IF fails = {} THEN "filter" ELSE onError]
    /\ netBlocks' = netBlocks + Len(cc[self].AppliedBlocks)
                              - Len(cc[self].RevertedBlocks)
    /\ UNCHANGED <<cs, updates, mu, cc, unconfirmedSets, changes, op, pre, offers,
                   notified, retired, committed>>

PccUpdate(self) == PccUpdateWith(self, NoFailures, "filter")

PccUpdateReturnsOnError(self) == PccUpdateWith(self, DbFailures, "unlock")

PccUpdateFailing(self) == PccUpdateWith(self, DbFailures, "filter")

\* lines 58-99: txids, unconfirmedSets, tp.purge() and the age filter; the
\* lock is left as m.
PccFilterWith(self, m) ==
    /\ pc[self] = "filter"
    /\ \E order \in Orders(tp.transactionSets) :
       \E purged \in {purge(tp)} :
       \E pruned \in {pruneSets(stripConfirmed(tp, order, txids(cc[self])),
                                purged.blockHeight, purged.transactionHeights)} :
          /\ unconfirmedSets' = [unconfirmedSets EXCEPT ![self] = pruned.sets]
          /\ tp' = [purged EXCEPT !.transactionHeights = pruned.heights]
    /\ retired' = retired \cup (PooledTxns(tp) \cap txids(cc[self]))
    /\ mu' = m
    /\ pc' = [pc EXCEPT ![self] = "readd"]
    /\ UNCHANGED <<cs, log, db, updates, cc, changes, netBlocks, op, pre, offers,
                   notified, committed>>

PccFilterThenDemote(self) == PccFilterWith(self, Demote(mu))

PccFilter(self) == PccFilterWith(self, mu)

\* lines 103-141: the reverted transactions, then the unconfirmed ones
PccReadd(self) ==
    /\ pc[self] = "readd"
    /\ \E st \in {readdUnconfirmed(
                     readdReverted([tp |-> tp, offers |-> <<>>],
                                   revertedTxns(cc[self]), cc[self].valid),
                     Flatten(unconfirmedSets[self]), cc[self].valid)} :
          /\ tp' = st.tp
          /\ offers' = st.offers
    /\ pc' = [pc EXCEPT ![self] = "demote"]
    /\ UNCHANGED <<cs, log, db, updates, mu, cc, unconfirmedSets, changes, netBlocks, op,
                   pre, notified, retired, committed>>

\* line 144: tp.mu.Demote(); the lock is left as m.
PccDemoteTo(self, m) ==
    /\ pc[self] = "demote"
    /\ mu' = m
    /\ committed' = tp
    /\ pc' = [pc EXCEPT ![self] = "notify"]
    /\ UNCHANGED <<cs, log, tp, db, updates, cc, unconfirmedSets, changes, netBlocks, op,
                   pre, offers, notified, retired>>

PccDemoteReleases(self) == PccDemoteTo(self, Unlock(mu))

PccDemote(self) == PccDemoteTo(self, Demote(mu))

\* line 145: tp.updateSubscribersTransactions()
PccNotify(self) ==
    /\ pc[self] = "notify"
    /\ updates' = updates + 1
    /\ notified' = Append(notified, tp.transactionSets)
    /\ pc' = [pc EXCEPT ![self] = "unlock"]
    /\ UNCHANGED <<cs, log, tp, db, mu, cc, unconfirmedSets, changes, netBlocks, op, pre,
                   offers, retired, committed>>

\* line 146: tp.mu.DemotedUnlock(), and the call returns to `to`
PccUnlockTo(self, to) ==
    /\ pc[self] = "unlock"
    /\ mu' = DemotedUnlock(mu)
    /\ cc' = [cc EXCEPT ![self] = NoCC]
    /\ unconfirmedSets' = [unconfirmedSets EXCEPT ![self] = <<>>]
    /\ pre' = NewPool
    /\ offers' = <<>>
    /\ notified' = <<>>
    /\ log' = {}
    /\ pc' = [pc EXCEPT ![self] = to]
    /\ UNCHANGED <<cs, tp, db, updates, changes, netBlocks, op, retired, committed>>

PccUnlock(self) == PccUnlockTo(self, "idle")

\* The lock is taken when `free` holds. line 151: tp.mu.Lock()
PurgeLockWhen(self, free) ==
    /\ pc[self] = "idle"
    /\ free
    /\ mu' = Lock(mu, self)
    /\ pre' = tp
    /\ pc' = [pc EXCEPT ![self] = "purge"]
    /\ UNCHANGED <<cs, log, tp, db, updates, cc, unconfirmedSets, changes, netBlocks, op,
                   offers, notified, retired, committed>>

PurgeLockShared(self) == PurgeLockWhen(self, CanRLock(mu))

PurgeLock(self) == PurgeLockWhen(self, LockFree(mu))

\* line 152: tp.purge()
PurgePurge(self) ==
    /\ pc[self] = "purge"
    /\ tp' = purge(tp)
    /\ pc' = [pc EXCEPT ![self] = "unlock"]
    /\ UNCHANGED <<cs, log, db, updates, mu, cc, unconfirmedSets, changes, netBlocks, op,
                   pre, offers, notified, retired, committed>>

\* line 153: tp.mu.Unlock()
PurgeUnlock(self) ==
    /\ pc[self] = "unlock"
    /\ mu' = Unlock(mu)
    /\ committed' = tp
    /\ pre' = NewPool
    /\ pc' = [pc EXCEPT ![self] = "idle"]
    /\ UNCHANGED <<cs, log, tp, db, updates, cc, unconfirmedSets, changes, netBlocks, op,
                   offers, notified, retired>>

\* A user's AcceptTransactionSet(ts): Lock, the Admission Gate, Unlock.
\* The caller goes on at `to`.
AcceptLockTo(self, to) ==
    /\ pc[self] = "idle"
    /\ LockFree(mu)
    /\ mu' = Lock(mu, self)
    /\ pre' = tp
    /\ pc' = [pc EXCEPT ![self] = to]
    /\ UNCHANGED <<cs, log, tp, db, updates, cc, unconfirmedSets, changes, netBlocks, op,
                   offers, notified, retired, committed>>

AcceptLock(self) == AcceptLockTo(self, "accept")

AcceptSetTo(self, to) ==
    /\ pc[self] = "accept"
    /\ \E ts \in NewSets : tp' = acceptTransactionSet(tp, ts, Txns).tp
    /\ pc' = [pc EXCEPT ![self] = to]
    /\ UNCHANGED <<cs, log, db, updates, mu, cc, unconfirmedSets, changes, netBlocks, op,
                   pre, offers, notified, retired, committed>>

AcceptSet(self) == AcceptSetTo(self, "unlock")

AcceptUnlock(self) ==
    /\ pc[self] = "unlock"
    /\ mu' = Unlock(mu)
    /\ committed' = tp
    /\ pre' = NewPool
    /\ pc' = [pc EXCEPT ![self] = "idle"]
    /\ UNCHANGED <<cs, log, tp, db, updates, cc, unconfirmedSets, changes, netBlocks, op,
                   offers, notified, retired>>

\* A reader of the pool contents: RLock, read, RUnlock.
ReadLock(self) ==
    /\ pc[self] = "idle"
    /\ CanRLock(mu)
    /\ mu' = RLock(mu, self)
    /\ pc' = [pc EXCEPT ![self] = "read"]
    /\ UNCHANGED <<cs, log, tp, db, updates, cc, unconfirmedSets, changes, netBlocks, op,
                   pre, offers, notified, retired, committed>>

ReadUnlock(self) ==
    /\ pc[self] = "read"
    /\ mu' = RUnlock(mu, self)
    /\ pc' = [pc EXCEPT ![self] = "idle"]
    /\ UNCHANGED <<cs, log, tp, db, updates, cc, unconfirmedSets, changes, netBlocks, op,
                   pre, offers, notified, retired, committed>>

NextConc ==
    \/ \E self \in Changers :
          \/ PccLock(self)
          \/ PccUpdate(self)
          \/ PccFilter(self)
          \/ PccReadd(self)
          \/ PccDemote(self)
          \/ PccNotify(self)
          \/ PccUnlock(self)
    \/ \E self \in Purgers :
          \/ PurgeLock(self)
          \/ PurgePurge(self)
          \/ PurgeUnlock(self)
    \/ \E self \in Admitters :
          \/ AcceptLock(self)
          \/ AcceptSet(self)
          \/ AcceptUnlock(self)
    \/ \E self \in Readers :
          \/ ReadLock(self)
          \/ ReadUnlock(self)

SpecConc == Init /\ [][NextConc]_vars


\* ============================== the calls, with the consensus set's lock
\* The consensus set calls ProcessConsensusChange while it holds its own
\* lock (lines 122-124); a user's AcceptTransactionSet holds tp.mu and locks
\* the consensus set to check validity (line 122). cc.TryTransactionSet,
\* which the re-admission of lines 103-141 uses, takes no lock.
ConsensusLock(self) ==
    /\ pc[self] = "idle"
    /\ changes < MaxChanges
    /\ cs = "none"
    /\ cs' = self
    /\ pc' = [pc EXCEPT ![self] = "called"]
    /\ UNCHANGED <<tp, db, updates, mu, cc, unconfirmedSets, changes, netBlocks,
                   op, pre, offers, notified, retired, committed, log>>

ConsensusUnlock(self) ==
    /\ pc[self] = "returned"
    /\ cs' = "none"
    /\ pc' = [pc EXCEPT ![self] = "idle"]
    /\ UNCHANGED <<tp, db, updates, mu, cc, unconfirmedSets, changes, netBlocks,
                   op, pre, offers, notified, retired, committed, log>>

\* The validation of a user's set locks the consensus set.
ValidateLock(self) ==
    /\ pc[self] = "consensus"
    /\ cs = "none"
    /\ cs' = self
    /\ pc' = [pc EXCEPT ![self] = "accept"]
    /\ UNCHANGED <<tp, db, updates, mu, cc, unconfirmedSets, changes, netBlocks,
                   op, pre, offers, notified, retired, committed, log>>

ValidateUnlock(self) ==
    /\ pc[self] = "validated"
    /\ cs' = "none"
    /\ pc' = [pc EXCEPT ![self] = "unlock"]
    /\ UNCHANGED <<tp, db, updates, mu, cc, unconfirmedSets, changes, netBlocks,
                   op, pre, offers, notified, retired, committed, log>>

ChangerStep(self) ==
    \/ ConsensusLock(self)
    \/ PccLockAt(self, "called")
    \/ PccUpdate(self)
    \/ PccFilter(self)
    \/ PccReadd(self)
    \/ PccDemote(self)
    \/ PccNotify(self)
    \/ PccUnlockTo(self, "returned")
    \/ ConsensusUnlock(self)

PurgerStep(self) ==
    \/ PurgeLock(self)
    \/ PurgePurge(self)
    \/ PurgeUnlock(self)

AdmitterStep(self) ==
    \/ AcceptLockTo(self, "consensus")
    \/ ValidateLock(self)
    \/ AcceptSetTo(self, "validated")
    \/ ValidateUnlock(self)
    \/ AcceptUnlock(self)

ReaderStep(self) ==
    \/ ReadLock(self)
    \/ ReadUnlock(self)

NextLive ==
    \/ \E self \in Changers : ChangerStep(self)
    \/ \E self \in Purgers : PurgerStep(self)
    \/ \E self \in Admitters : AdmitterStep(self)
    \/ \E self \in Readers : ReaderStep(self)

\* Every thread that can take a step eventually takes one; a thread waiting
\* for tp.mu gets it if it is free often enough.
Fairness ==
    /\ \A self \in Changers : SF_vars(ChangerStep(self))
    /\ \A self \in Purgers : WF_vars(PurgePurge(self) \/ PurgeUnlock(self))
    /\ \A self \in Admitters : SF_vars(AdmitterStep(self))
    /\ \A self \in Readers : WF_vars(ReadUnlock(self))

SpecLive == Init /\ [][NextLive]_vars /\ Fairness


\* ==================== the calls, with database writes that fail
\* One caller of ProcessConsensusChange whose database writes may fail,
\* between users' AcceptTransactionSet and PurgeTransactionPool calls.
NextMirror ==
    \/ PccLock("c1")
    \/ PccUpdateFailing("c1")
    \/ PccFilter("c1")
    \/ PccReadd("c1")
    \/ PccDemote("c1")
    \/ PccNotify("c1")
    \/ PccUnlock("c1")
    \/ \E self \in Purgers : PurgerStep(self)
    \/ \E self \in Admitters :
          \/ AcceptLock(self)
          \/ AcceptSet(self)
          \/ AcceptUnlock(self)

SpecMirror == Init /\ [][NextMirror]_vars

\* ================================================================ claims
\* The caller `self` has just returned from ProcessConsensusChange(cc[self]).
ReturnedFrom(self) == op = "ProcessConsensusChange" /\ cc[self].ID # 0

\* Number of times txn occurs in the pooled sets of t.
Occurrences(t, txn) ==
    Cardinality({<<id, i>> \in (DOMAIN t.transactionSets) \X (1..3) :
                    /\ i <= Len(t.transactionSets[id])
                    /\ t.transactionSets[id][i] = txn})

OffersOf(txn, from) ==
    {i \in 1..Len(offers) : offers[i].set = <<txn>> /\ offers[i].from = from}

\* C1: when ProcessConsensusChange returns, no transaction of an applied
\* block of the change is a member of a pooled set, whether it was pooled
\* before, is also in a reverted block of the change, or both.
C1_AppliedAbsent ==
    \A self \in Changers :
        ReturnedFrom(self) =>
            \A txn \in BlockTxns(cc[self].AppliedBlocks) :
                txn \notin PooledTxns(tp)

C1_Witness ==
    \E self \in Changers :
        /\ ReturnedFrom(self)
        /\ \E txn \in BlockTxns(cc[self].AppliedBlocks) :
              /\ txn \in PooledTxns(pre)
              /\ txn \in BlockTxns(cc[self].RevertedBlocks)
              /\ txn \in cc[self].valid
              /\ txn \notin PooledTxns(tp)

\* C3: in every reachable state each object is claimed by at most one pooled
\* set, and every entry of the object-claim map names a pooled set that
\* claims the object.
ClaimedBy(t, o) ==
    {id \in DOMAIN t.transactionSets : o \in RelatedObjects(t.transactionSets[id])}

C3_ClaimsUnique ==
    \A o \in Objects :
        /\ Cardinality(ClaimedBy(tp, o)) <= 1
        /\ o \in DOMAIN tp.knownObjects =>
              /\ tp.knownObjects[o] \in DOMAIN tp.transactionSets
              /\ ClaimedBy(tp, o) = {tp.knownObjects[o]}

C3_Witness ==
    /\ op = "ProcessConsensusChange"
    /\ \E o \in DOMAIN pre.knownObjects \cap DOMAIN tp.knownObjects :
          /\ pre.knownObjects[o] # tp.knownObjects[o]
          /\ tp.knownObjects[o] \in DOMAIN tp.transactionSets

\* C4: BlockHeight equals the blocks applied minus the blocks reverted over
\* all processed changes, also when a change reverts more blocks than the
\* current height.
C4_HeightIsNet == tp.blockHeight = netBlocks

\* As the code computes it: the net, wrapped to the unsigned width.
C4_HeightIsNetWrapped == tp.blockHeight = (netBlocks + Modulus) % Modulus

\* A fresh pool is told of one reverted block: the height wraps.
C4_Underflow ==
    /\ op = "ProcessConsensusChange"
    /\ changes = 1
    /\ netBlocks = -1
    /\ pre.blockHeight = 0
    /\ tp.blockHeight = Modulus - 1

\* C5: the age filter drops a surviving pooled transaction iff it has a
\* recorded first-seen height H and (new BlockHeight - H) > 12 as an integer
\* difference, also when the new BlockHeight is below H; a transaction it
\* keeps is offered to the gate and keeps its height record if accepted.
\* Stated for the transactions pooled once.
Survivors(self) ==
    {txn \in PooledTxns(pre) \ BlockTxns(cc[self].AppliedBlocks) :
        Occurrences(pre, txn) = 1}

Kept(self, txn) == txn \in Range(Flatten(unconfirmedSets[self]))

C5_AgeFilterOf(self, txn, age) ==
    LET seen == txn \in DOMAIN pre.transactionHeights
        stale == seen /\ age > maxTxnAge
    IN /\ stale <=> ~Kept(self, txn)
       /\ Kept(self, txn) =>
             /\ OffersOf(txn, "unconfirmed") # {}
             /\ \A i \in OffersOf(txn, "unconfirmed") :
                   (~offers[i].err /\ seen) =>
                       /\ txn \in DOMAIN tp.transactionHeights
                       /\ tp.transactionHeights[txn] = pre.transactionHeights[txn]

C5_AgeFilter ==
    \A self \in Changers :
        ReturnedFrom(self) =>
            \A txn \in Survivors(self) :
                C5_AgeFilterOf(self, txn,
                    tp.blockHeight - seenHeight(pre.transactionHeights, txn))

\* As the code computes it: the difference wraps on the unsigned height.
C5_AgeFilterWrapped ==
    \A self \in Changers :
        ReturnedFrom(self) =>
            \A txn \in Survivors(self) :
                C5_AgeFilterOf(self, txn,
                    (tp.blockHeight + Modulus
                        - seenHeight(pre.transactionHeights, txn)) % Modulus)

\* ta was pooled at height 1 and one block is reverted: the age is -1, ta
\* is valid, and ta is dropped with its height record.
C5_DroppedBelowSeenHeight ==
    /\ ReturnedFrom("c1")
    /\ pre.blockHeight = 1
    /\ netBlocks = 0
    /\ PooledTxns(pre) = {"ta"}
    /\ pre.transactionHeights["ta"] = 1
    /\ cc["c1"].RevertedBlocks = <<<<>>>>
    /\ cc["c1"].AppliedBlocks = <<>>
    /\ cc["c1"].valid = {"ta"}
    /\ offers = <<>>
    /\ tp.blockHeight = 0
    /\ tp.transactionSets = EmptyMap
    /\ tp.transactionHeights = EmptyMap

\* C6: a transaction pooled before the change with first-seen height H, in
\* no applied and no reverted block, with (BlockHeight after the change - H)
\* > 12, is in no pooled set when ProcessConsensusChange returns, has no
\* TransactionHeights entry, was never offered to the gate, and the objects
\* its set claimed are unclaimed or claimed by another transaction's set.
AgedOut(self, txn) ==
    /\ txn \in PooledTxns(pre)
    /\ txn \in DOMAIN pre.transactionHeights
    /\ txn \notin BlockTxns(cc[self].AppliedBlocks)
    /\ txn \notin BlockTxns(cc[self].RevertedBlocks)
    /\ tp.blockHeight - pre.transactionHeights[txn] > maxTxnAge

Evicted(txn) ==
    /\ txn \notin PooledTxns(tp)
    /\ txn \notin DOMAIN tp.transactionHeights
    /\ \A i \in 1..Len(offers) : offers[i].set # <<txn>>
    /\ \A id \in DOMAIN pre.transactionSets :
          txn \in Range(pre.transactionSets[id]) =>
              \A o \in RelatedObjects(pre.transactionSets[id]) :
                  o \in DOMAIN tp.knownObjects =>
                      txn \notin Range(tp.transactionSets[tp.knownObjects[o]])

C6_AgedOutEvicted ==
    \A self \in Changers :
        ReturnedFrom(self) =>
            \A txn \in Txns : AgedOut(self, txn) => Evicted(txn)

\* The same for the transactions pooled once.
C6_AgedOutEvictedOnce ==
    \A self \in Changers :
        ReturnedFrom(self) =>
            \A txn \in Txns :
                (AgedOut(self, txn) /\ Occurrences(pre, txn) = 1) => Evicted(txn)


\* tc is pooled in two sets since height 0 and thirteen blocks are applied:
\* tc is offered, pooled again and gets a fresh height record.
C6_PooledTwiceSurvives ==
    /\ ReturnedFrom("c1")
    /\ DOMAIN pre.transactionSets = {SetID(<<"tc">>), SetID(<<"ta", "tc">>)}
    /\ pre.blockHeight = 0
    /\ pre.transactionHeights["tc"] = 0
    /\ cc["c1"].RevertedBlocks = <<>>
    /\ Len(cc["c1"].AppliedBlocks) = maxTxnAge + 1
    /\ cc["c1"].valid = {"tc"}
    /\ tp.blockHeight = maxTxnAge + 1
    /\ PooledTxns(tp) = {"tc"}
    /\ tp.transactionHeights = [txn \in {"tc"} |-> maxTxnAge + 1]

\* C7: a transaction that was pooled, then confirmed by an applied block of
\* an earlier change, whose block a later change reverts (applying nothing
\* that contains it) and whose singleton set the gate rejects, is absent
\* from the pool and has no TransactionHeights entry when
\* ProcessConsensusChange returns.
RevertedOnly(self, txn) ==
    /\ txn \in BlockTxns(cc[self].RevertedBlocks)
    /\ txn \notin BlockTxns(cc[self].AppliedBlocks)

C7_RejectedForgotten ==
    \A self \in Changers :
        ReturnedFrom(self) =>
            \A txn \in retired :
                (/\ RevertedOnly(self, txn)
                 /\ \A i \in OffersOf(txn, "reverted") : offers[i].err) =>
                    /\ txn \notin PooledTxns(tp)
                    /\ txn \notin DOMAIN tp.transactionHeights

\* What the code does there: the transaction is absent from the pool.
C7_RejectedAbsent ==
    \A self \in Changers :
        ReturnedFrom(self) =>
            \A txn \in retired :
                (/\ RevertedOnly(self, txn)
                 /\ \A i \in OffersOf(txn, "reverted") : offers[i].err) =>
                    txn \notin PooledTxns(tp)

\* ta was pooled at height 0, confirmed by the block <<ta>>, and that block
\* is reverted with ta no longer valid: its height record stays.
C7_HeightRecordStays ==
    /\ ReturnedFrom("c1")
    /\ "ta" \in retired
    /\ cc["c1"].RevertedBlocks = <<<<"ta">>>>
    /\ cc["c1"].AppliedBlocks = <<>>
    /\ cc["c1"].valid = {}
    /\ offers = <<[set |-> <<"ta">>, from |-> "reverted", err |-> TRUE]>>
    /\ tp.transactionSets = EmptyMap
    /\ "ta" \in DOMAIN tp.transactionHeights

\* C8: every transaction in a reverted block and in no applied block of the
\* change is offered to the gate as a singleton set once per occurrence in
\* the reverted blocks, and is a member of a pooled set when
\* ProcessConsensusChange returns if the gate accepted an offer.
C8_RevertedOffered ==
    \A self \in Changers :
        ReturnedFrom(self) =>
            \A txn \in Txns :
                RevertedOnly(self, txn) =>
                    /\ Cardinality(OffersOf(txn, "reverted"))
                          = Count(Flatten(cc[self].RevertedBlocks), txn)
                    /\ (\E i \in OffersOf(txn, "reverted") : ~offers[i].err)
                          => txn \in PooledTxns(tp)

C8_Witness ==
    \E self \in Changers :
        /\ ReturnedFrom(self)
        /\ \E txn \in retired :
              /\ RevertedOnly(self, txn)
              /\ Count(Flatten(cc[self].RevertedBlocks), txn) = 2
              /\ \E i \in OffersOf(txn, "reverted") : ~offers[i].err
              /\ \E i \in OffersOf(txn, "reverted") : offers[i].err
              /\ txn \in PooledTxns(tp)

\* C9: PurgeTransactionPool empties the object-claim map, the set map and
\* the diff map, sets the size to 0, and changes nothing else:
\* TransactionHeights, BlockHeight and the database keep their values and no
\* subscriber is notified.
C9_PurgeFrame ==
    [][op' = "PurgeTransactionPool" =>
          /\ tp'.knownObjects = EmptyMap
          /\ tp'.transactionSets = EmptyMap
          /\ tp'.transactionSetDiffs = EmptyMap
          /\ tp'.transactionListSize = 0
          /\ tp'.transactionHeights = tp.transactionHeights
          /\ tp'.blockHeight = tp.blockHeight
          /\ db' = db
          /\ updates' = updates
          /\ notified' = notified]_vars

C9_Witness ==
    /\ op = "PurgeTransactionPool"
    /\ pre.transactionSets # EmptyMap
    /\ pre.knownObjects # EmptyMap
    /\ tp.transactionHeights # EmptyMap
    /\ tp.blockHeight # 0
    /\ db.confirmed # {}
    /\ updates > 0


\* C2: a reader holding the lock shared sees, at any point of any
\* interleaving, the pool as it was when exclusive access was last given up
\* (before a change took the lock, or after its re-admission finished):
\* never the store purged and not yet repopulated, nor BlockHeight updated
\* with the old pooled sets.
C2_ReadersSeeCommitted ==
    \A r \in Readers :
        pc[r] = "read" =>
            /\ tp = committed
            /\ \A c \in Changers : pc[c] \in {"idle", "notify", "unlock"}

C2_Witness ==
    \E r \in Readers, c \in Changers :
        /\ pc[r] = "read"
        /\ pc[c] = "notify"
        /\ tp.blockHeight # pre.blockHeight
        /\ tp.transactionSets # pre.transactionSets
        /\ tp.transactionSets # EmptyMap

\* C10: while one caller is between Lock and DemotedUnlock of
\* ProcessConsensusChange, or between Lock and Unlock of
\* PurgeTransactionPool, no other caller is inside its own locked region;
\* and the pool each call leaves is the one the call computes, run alone,
\* from the pool it met when it took the lock.
Writers == Changers \cup Purgers \cup Admitters

C10_Serialized ==
    /\ \A p, q \in Writers : (pc[p] # "idle" /\ pc[q] # "idle") => p = q
    /\ \A c \in Changers :
          pc[c] \in {"demote", "notify", "unlock"} =>
              \E order \in Orders(pre.transactionSets) :
                  tp = processConsensusChange(pre, db, cc[c], order, {}).tp
    /\ \A p \in Purgers : pc[p] = "unlock" => tp = purge(pre)

\* A change holds the lock demoted, a reader is in, and every other writer
\* is kept out although another change is due.
C10_Witness ==
    \E c \in Changers, r \in Readers :
        /\ pc[c] = "notify"
        /\ mu.demoted
        /\ pc[r] = "read"
        /\ changes < MaxChanges
        /\ tp # pre
        /\ \A w \in Writers \ {c} : pc[w] = "idle"

\* C11: subscribers are notified exactly once per ProcessConsensusChange,
\* after the last re-admission attempt and after the lock was demoted; the
\* pool contents the notification reads are those the re-admission left, and
\* they stay unchanged until DemotedUnlock, whatever readers, purgers and
\* other changers do meanwhile.
BeforeNotify == {"update", "filter", "readd", "demote", "notify"}

C11_NotifiedOnce ==
    /\ updates = changes - Cardinality({c \in Changers : pc[c] \in BeforeNotify})
    /\ \A c \in Changers :
          /\ pc[c] \in BeforeNotify => notified = <<>>
          /\ pc[c] \in {"notify", "unlock"} =>
                /\ mu.writer = c
                /\ mu.demoted
                /\ tp = committed
                /\ \E order \in Orders(pre.transactionSets) :
                      LET res == processConsensusChange(pre, db, cc[c], order, {})
                      IN tp = res.tp /\ offers = res.offers
          /\ pc[c] = "unlock" => notified = <<tp.transactionSets>>

\* The notification has been sent with a re-admitted pool while a reader
\* is in and another change is still due.
C11_Witness ==
    \E c \in Changers, r \in Readers :
        /\ pc[c] = "unlock"
        /\ pc[r] = "read"
        /\ changes < MaxChanges
        /\ offers # <<>>
        /\ \E i \in 1..Len(offers) : ~offers[i].err
        /\ \E i \in 1..Len(offers) : offers[i].err
        /\ notified = <<tp.transactionSets>>
        /\ tp.transactionSets # pre.transactionSets

\* C12: every ProcessConsensusChange call made while its caller holds the
\* consensus set's lock returns with tp.mu released, whatever readers,
\* purgers and users submitting sets through the gate (which hold tp.mu
\* while they validate against the consensus set) do; no reachable state is
\* a deadlock.
C12_NoDeadlock == ENABLED NextLive

C12_Returns ==
    \A c \in Changers : (pc[c] = "called") ~> (pc[c] = "returned" /\ mu.writer # c)

\* The consensus set holds its lock and waits in ProcessConsensusChange for
\* tp.mu; the user's AcceptTransactionSet holds tp.mu and waits for the
\* consensus set's lock.
C12_LockOrderInversion ==
    \E c \in Changers, a \in Admitters :
        /\ cs = c
        /\ pc[c] = "called"
        /\ mu.writer = a
        /\ pc[a] = "consensus"
        /\ ~ENABLED ChangerStep(c)
        /\ ~ENABLED AdmitterStep(a)

\* C13: failures of the database writes (deleteTransaction, addTransaction,
\* putRecentConsensusChange, putBlockHeight) never change the in-memory
\* outcome: the pool, BlockHeight and TransactionHeights a call leaves are
\* those the same call computes from the same pool when every write
\* succeeds; every later step runs, subscribers are notified and the lock is
\* released.
C13_FailuresIgnored ==
    /\ \A c \in Changers :
          (pc[c] = "unlock" /\ log # {}) =>
              /\ \E order \in Orders(pre.transactionSets) :
                    LET res == processConsensusChange(pre, db, cc[c], order, {})
                    IN /\ tp = res.tp
                       /\ offers = res.offers
              /\ notified = <<tp.transactionSets>>
              /\ mu.writer = c
              /\ mu.demoted
    /\ (\A c \in Changers : pc[c] = "idle") => (log = {} /\ mu.writer \notin Changers)

\* Every kind of write failed, and the call re-admitted transactions at a
\* new height and notified.
C13_Witness ==
    \E c \in Changers :
        /\ pc[c] = "unlock"
        /\ log = DbWrites
        /\ BlockTxns(cc[c].AppliedBlocks) # {}
        /\ db.confirmed = {}
        /\ db.recentChange # cc[c].ID
        /\ db.blockHeight # tp.blockHeight
        /\ tp.blockHeight # pre.blockHeight
        /\ \E i \in 1..Len(offers) : ~offers[i].err

\* C14: purge is idempotent: a second PurgeTransactionPool right after the
\* first leaves exactly the state the first left: empty claim map, set map
\* and diff map, size 0, and the TransactionHeights and BlockHeight the pool
\* had before the two calls.
C14_PurgeIdempotent ==
    [][op' = "PurgeTransactionPool twice" =>
          /\ tp' = tp
          /\ db' = db
          /\ updates' = updates
          /\ tp'.knownObjects = EmptyMap
          /\ tp'.transactionSets = EmptyMap
          /\ tp'.transactionSetDiffs = EmptyMap
          /\ tp'.transactionListSize = 0
          /\ tp'.transactionHeights = pre.transactionHeights
          /\ tp'.blockHeight = pre.blockHeight]_vars

C14_Witness ==
    /\ op = "PurgeTransactionPool twice"
    /\ Cardinality(DOMAIN pre.transactionSets) = 2
    /\ pre.knownObjects # EmptyMap
    /\ pre.transactionListSize = 3
    /\ tp.transactionHeights # EmptyMap
    /\ tp.blockHeight # 0

\* C15: a surviving pooled transaction (pooled before the change, not
\* newly confirmed, kept by the age filter) that the gate rejects during
\* re-admission has no TransactionHeights entry and is absent from the pool
\* when ProcessConsensusChange returns; one that the gate accepts keeps the
\* TransactionHeights value it had before the change.
Readmitted(self) ==
    {txn \in PooledTxns(pre) \ BlockTxns(cc[self].AppliedBlocks) :
        OffersOf(txn, "unconfirmed") # {}}

C15_ReadmissionOf(txn) ==
    /\ (\E i \in OffersOf(txn, "unconfirmed") : offers[i].err) =>
          /\ txn \notin DOMAIN tp.transactionHeights
          /\ txn \notin PooledTxns(tp)
    /\ (\E i \in OffersOf(txn, "unconfirmed") : ~offers[i].err) =>
          (txn \in DOMAIN pre.transactionHeights =>
              /\ txn \in DOMAIN tp.transactionHeights
              /\ tp.transactionHeights[txn] = pre.transactionHeights[txn])

C15_SurvivorHeights ==
    \A self \in Changers :
        ReturnedFrom(self) =>
            \A txn \in Readmitted(self) : C15_ReadmissionOf(txn)

\* The same for the survivors that are offered once: pooled in one set and
\* in no reverted block.
C15_SurvivorHeightsOnce ==
    \A self \in Changers :
        ReturnedFrom(self) =>
            \A txn \in Readmitted(self) :
                (/\ Occurrences(pre, txn) = 1
                 /\ txn \notin BlockTxns(cc[self].RevertedBlocks)) =>
                    C15_ReadmissionOf(txn)

\* tc is pooled in the sets <<tc>> and <<ta, tc>>; an empty change offers
\* it twice, the gate accepts the first offer and rejects the second as
\* already pooled: tc stays pooled and its height record is deleted.
C15_PooledWithoutHeight ==
    /\ ReturnedFrom("c1")
    /\ DOMAIN pre.transactionSets = {SetID(<<"tc">>), SetID(<<"ta", "tc">>)}
    /\ "tc" \in DOMAIN pre.transactionHeights
    /\ cc["c1"].RevertedBlocks = <<>>
    /\ cc["c1"].AppliedBlocks = <<>>
    /\ cc["c1"].valid = {"ta", "tc"}
    /\ Cardinality(OffersOf("tc", "unconfirmed")) = 2
    /\ "tc" \in PooledTxns(tp)
    /\ "tc" \notin DOMAIN tp.transactionHeights

\* C16: the singleton offers of one ProcessConsensusChange are, in order:
\* the transactions of the reverted blocks, from the last block of
\* RevertedBlocks to the first and in block order within a block, without
\* the newly confirmed ones; then the survivors of the age filter, those of
\* one pooled set in their order in that set. The first offer meets the
\* purged store, and no survivor is offered before the last reverted
\* transaction.
RECURSIVE IsSubseq(_, _)
IsSubseq(a, b) ==
    IF a = <<>> THEN TRUE
    ELSE IF b = <<>> THEN FALSE
    ELSE IF Head(a) = Head(b) THEN IsSubseq(Tail(a), Tail(b))
    ELSE IsSubseq(a, Tail(b))

OldestRevertedFirst(c) ==
    LET n == Len(c.RevertedBlocks)
        blocks == [i \in 1..n |-> c.RevertedBlocks[n + 1 - i]]
    IN SelectSeq(Flatten(blocks),
                 LAMBDA txn : txn \notin BlockTxns(c.AppliedBlocks))

C16_OfferOrder ==
    \A self \in Changers :
        ReturnedFrom(self) =>
            LET rev == OldestRevertedFirst(cc[self])
                kept == unconfirmedSets[self]
                rest == Flatten(kept)
            IN /\ Len(offers) = Len(rev) + Len(rest)
               /\ \A i \in 1..Len(rev) :
                     offers[i].set = <<rev[i]>> /\ offers[i].from = "reverted"
               /\ \A i \in 1..Len(rest) :
                     /\ offers[Len(rev) + i].set = <<rest[i]>>
                     /\ offers[Len(rev) + i].from = "unconfirmed"
               /\ \E order \in Orders(pre.transactionSets) :
                     /\ Len(kept) = Len(order)
                     /\ \A i \in 1..Len(kept) :
                           /\ IsSubseq(kept[i], pre.transactionSets[order[i]])
                           /\ Range(kept[i]) \cap BlockTxns(cc[self].AppliedBlocks) = {}
               /\ offers # <<>> =>
                     (offers[1].err <=> offers[1].set[1] \notin cc[self].valid)

\* Two different reverted blocks, a pooled set of two survivors, and a
\* first offer accepted for an object the pool claimed before.
C16_Witness ==
    \E self \in Changers :
        /\ ReturnedFrom(self)
        /\ Len(cc[self].RevertedBlocks) = 2
        /\ BlockTxns(<<cc[self].RevertedBlocks[1]>>) # {}
        /\ BlockTxns(<<cc[self].RevertedBlocks[2]>>) # {}
        /\ cc[self].RevertedBlocks[1] # cc[self].RevertedBlocks[2]
        /\ SetID(<<"ta", "tc">>) \in DOMAIN pre.transactionSets
        /\ "o2" \in DOMAIN pre.knownObjects
        /\ Cardinality(OffersOf("ta", "unconfirmed")) = 1
        /\ OffersOf("tc", "unconfirmed") # {}
        /\ offers[1].set = <<"tb">>
        /\ ~offers[1].err

\* C17: when every database write succeeds, after ProcessConsensusChange
\* returns the database records as confirmed every transaction of an
\* applied block of the change, also one that is in a reverted block of the
\* same change; it records as unconfirmed every transaction that is only in
\* reverted blocks; and its change ID and height are the change's ID and
\* the pool's BlockHeight.
C17_MirrorFollows ==
    \A self \in Changers :
        (ReturnedFrom(self) /\ log = {}) =>
            /\ \A txn \in BlockTxns(cc[self].AppliedBlocks) : txn \in db.confirmed
            /\ \A txn \in Txns : RevertedOnly(self, txn) => txn \notin db.confirmed
            /\ db.recentChange = cc[self].ID
            /\ db.blockHeight = tp.blockHeight

\* One transaction is reverted and applied again, another, confirmed by an
\* earlier change, is only reverted.
C17_Witness ==
    \E self \in Changers :
        /\ ReturnedFrom(self)
        /\ log = {}
        /\ \E txn \in BlockTxns(cc[self].AppliedBlocks) :
              txn \in BlockTxns(cc[self].RevertedBlocks)
        /\ \E txn \in retired : RevertedOnly(self, txn)
        /\ db.confirmed # {}
        /\ db.blockHeight # 0
        /\ cc[self].ID = 2

\* C18: whenever ProcessConsensusChange returns, every pooled transaction
\* with a TransactionHeights entry H has BlockHeight - H <= 12, whether it
\* was re-admitted as a survivor or resurrected from a reverted block with
\* a height record older than the change.
C18_PooledYoung ==
    \A self \in Changers :
        ReturnedFrom(self) =>
            \A txn \in PooledTxns(tp) \cap DOMAIN tp.transactionHeights :
                tp.blockHeight - tp.transactionHeights[txn] <= maxTxnAge

\* The same for the pooled transactions that are in no reverted block.
C18_SurvivorsYoung ==
    \A self \in Changers :
        ReturnedFrom(self) =>
            \A txn \in (PooledTxns(tp) \cap DOMAIN tp.transactionHeights)
                            \ BlockTxns(cc[self].RevertedBlocks) :
                tp.blockHeight - tp.transactionHeights[txn] <= maxTxnAge

\* ta was pooled at height 0 and confirmed by the block <<ta>>; a change
\* reverts that block and applies thirteen empty ones: ta is pooled again
\* at height 13 with its record of height 0.
C18_StaleResurrected ==
    /\ ReturnedFrom("c1")
    /\ "ta" \in retired
    /\ pre.transactionSets = EmptyMap
    /\ pre.blockHeight = 1
    /\ cc["c1"].RevertedBlocks = <<<<"ta">>>>
    /\ Len(cc["c1"].AppliedBlocks) = maxTxnAge + 1
    /\ offers = <<[set |-> <<"ta">>, from |-> "reverted", err |-> FALSE]>>
    /\ tp.blockHeight = maxTxnAge + 1
    /\ "ta" \in PooledTxns(tp)
    /\ tp.transactionHeights["ta"] = 0

\* C19: in a run without PurgeTransactionPool, whenever
\* ProcessConsensusChange returns every TransactionHeights entry belongs to
\* a transaction that is a member of a pooled set; the entry of a pooled
\* transaction the change confirmed and the entry of a reverted transaction
\* the gate rejected are gone.
C19_NoStaleHeights ==
    \A self \in Changers :
        ReturnedFrom(self) =>
            \A txn \in DOMAIN tp.transactionHeights : txn \in PooledTxns(tp)

\* ta was pooled at height 0 and the first change applies the block <<ta>>:
\* ta leaves the pool and its height record stays.
C19_ConfirmedRecordStays ==
    /\ ReturnedFrom("c1")
    /\ changes = 1
    /\ PooledTxns(pre) = {"ta"}
    /\ cc["c1"].RevertedBlocks = <<>>
    /\ cc["c1"].AppliedBlocks = <<<<"ta">>>>
    /\ offers = <<>>
    /\ tp.transactionSets = EmptyMap
    /\ tp.transactionHeights = [txn \in {"ta"} |-> 0]

\* C20: when a transaction R of a reverted block (and of no applied block)
\* and a surviving pooled transaction S claim the same object, and the gate
\* would accept either one alone, then after ProcessConsensusChange returns
\* R is pooled and holds the claim, S is absent from the pool and S has no
\* TransactionHeights entry.
Conflict(self, R, S) ==
    /\ R # S
    /\ RevertedOnly(self, R)
    /\ S \in PooledTxns(pre) \ BlockTxns(cc[self].AppliedBlocks)
    /\ Kept(self, S)
    /\ ObjectsOf(R) \cap ObjectsOf(S) # {}
    /\ R \in cc[self].valid
    /\ S \in cc[self].valid

ResurrectedWins(R, S) ==
    /\ SetID(<<R>>) \in DOMAIN tp.transactionSets
    /\ \A o \in ObjectsOf(R) :
          o \in DOMAIN tp.knownObjects /\ tp.knownObjects[o] = SetID(<<R>>)
    /\ S \notin PooledTxns(tp)
    /\ S \notin DOMAIN tp.transactionHeights

C20_ResurrectedWins ==
    \A self \in Changers :
        ReturnedFrom(self) =>
            \A R, S \in Txns : Conflict(self, R, S) => ResurrectedWins(R, S)

\* As the code does it: provided no other transaction of the reverted
\* blocks (S included) claims an object of R.
C20_ResurrectedWinsAlone ==
    \A self \in Changers :
        ReturnedFrom(self) =>
            \A R, S \in Txns :
                (/\ Conflict(self, R, S)
                 /\ \A txn \in BlockTxns(cc[self].RevertedBlocks) \ {R} :
                       ObjectsOf(txn) \cap ObjectsOf(R) = {}) =>
                    ResurrectedWins(R, S)

\* tb is reverted while ta, which spends the same output, is pooled with a
\* height record; both are valid: tb is pooled, ta is gone.
C20_Witness ==
    \E self \in Changers :
        /\ ReturnedFrom(self)
        /\ Conflict(self, "tb", "ta")
        /\ "ta" \notin BlockTxns(cc[self].RevertedBlocks)
        /\ "ta" \in DOMAIN pre.transactionHeights
        /\ pre.knownObjects["o2"] # SetID(<<"tb">>)
        /\ \E i \in OffersOf("ta", "unconfirmed") : offers[i].err
        /\ ResurrectedWins("tb", "ta")

====
